---- MODULE Spec2Model ----
(***************************************************************************)
(* Seat-reservation transaction protocol of the event registration API.    *)
(*                                                                         *)
(* The datastore is PostgreSQL at its default isolation level (READ        *)
(* COMMITTED), reached through GORM.  The committed tables are the         *)
(* variables users, events and registrations.  A transaction keeps its     *)
(* uncommitted writes in tx[p]; they reach the tables at COMMIT and are    *)
(* dropped at ROLLBACK.  A row written or selected FOR UPDATE stays locked *)
(* by its transaction until that transaction ends; a statement that needs  *)
(* a locked row waits (its action is disabled) and then works on the       *)
(* latest committed version of the row.                                    *)
(***************************************************************************)
EXTENDS Integers, FiniteSets, Sequences, TLC

\* ---------------------------------------------------------------- bounds
MaxCalls == 3       \* service calls of one behaviour, each on its own handler
NumUsers == 2       \* rows of the users table
NumEvents == 1      \* rows of the events table
MaxCap == 2         \* largest capacity of a created event
TestSize == 5       \* users and goroutines of the concurrency test (50 there)
testCapacity == 2   \* capacity of the concurrency test's event (10 there)

Handlers == 1..MaxCalls          \* handler p serves the p-th request
UserIDs == 1..(NumUsers + 1)      \* the last id has no row
EventIDs == 1..(NumEvents + 1)    \* the last id has no row

\* ---------------------------------------------------------------- outcomes
ErrAlreadyRegistered == "user already registered for this event"
ErrEventFull == "event is full"
ErrEventNotFound == "event not found"
ErrUserNotFound == "user not found"
ErrDB == "datastore error"        \* any other error value returned by GORM
Registered == "registered"        \* (registration, nil)
Cancelled == "cancelled"          \* nil from CancelRegistration
Updated == "updated"              \* 200 from PUT /events/:id
Created == "created"              \* 201 from POST /events, nil from CreateUser
Deleted == "deleted"              \* 200 from DELETE /events/:id, nil from DeleteUser
ErrBind == "invalid request body" \* the error of c.ShouldBindJSON
ErrInvalidID == "invalid event ID" \* the error of strconv.ParseUint
ErrCapacity == "capacity must be greater than 0"
ErrBadRequest == "cannot reduce capacity below current registrations"
NoResult == "none"

VARIABLES
    users,          \* ids of the rows of table users
    events,         \* table events: id -> [capacity, available_seats]
    registrations,  \* table registrations: set of rows
    nextRegID,      \* the serial sequence of registrations.id
    rowLock,        \* event id -> transaction holding the row lock, 0 if free
    pc,             \* position of each handler in its call
    call,           \* the call each handler is serving
    tx,             \* the uncommitted work of each handler's transaction, and
                    \* the event row the call has read
    seatsTaken,     \* history: committed register calls per pair
    refused,        \* history: number of ErrEventFull returns
    prior,          \* history: had the pair been Registered when the call arrived
    last,           \* history: the call that returned last
    result,         \* the locals (registration, err) of the test's goroutines
    cancelled,      \* history: the live registration that call cancelled, if any
    test,           \* the concurrency test program: its position and locals
    keys            \* primary keys in use (soft-deleted rows included), sequences

vars == <<users, events, registrations, nextRegID, rowLock, pc, call, tx,
          seatsTaken, refused, prior, last, result, cancelled, test, keys>>

\* The handlers of the HTTP server, or the goroutines of the test program.
Procs == DOMAIN pc

\* ---------------------------------------------------------------- tables
\* A row of registrations; deleted is "deleted_at IS NOT NULL" (soft delete).
Row(id, u, e) == [id |-> id, user_id |-> u, event_id |-> e, deleted |-> FALSE]

\* Faulty variant of LiveRows: the lookup binds user_id for both columns.
LiveRowsOfUser(regs, u, e) ==
    {r \in regs : r.user_id = u /\ r.event_id = u /\ ~r.deleted}

\* WHERE user_id = ? AND event_id = ? with GORM's soft-delete scope
\* (deleted_at IS NULL).
LiveRows(regs, u, e) ==
    {r \in regs : r.user_id = u /\ r.event_id = e /\ ~r.deleted}

\* Live registrations of one event.
LiveOfEvent(regs, e) == {r \in regs : r.event_id = e /\ ~r.deleted}

\* Variant of Conflicts: a unique index on (user_id, event_id), which covers
\* soft-deleted rows as well.
ConflictsLoose(regs, row) ==
    \E r \in regs : r.user_id = row.user_id /\ r.event_id = row.event_id

\* The unique constraints AutoMigrate derives from the Registration struct:
\* only the primary key id carries one.
Conflicts(regs, row) == \E r \in regs : r.id = row.id

\* INSERT ... ON CONFLICT DO NOTHING: the rows the statement adds.
CreateOnConflictDoNothing(regs, row) ==
    IF Conflicts(regs, row) THEN {} ELSE {row}

\* Faulty variant of DecreaseAvailableSeats: the row matches but keeps its value.
DecreaseNoStep(seats) ==
    IF seats > 0 THEN [rowsAffected |-> 1, seats |-> seats]
    ELSE [rowsAffected |-> 0, seats |-> seats]

\* Faulty variant of DecreaseAvailableSeats: the WHERE clause lacks
\* "available_seats > 0".
DecreaseUnconditional(seats) == [rowsAffected |-> 1, seats |-> seats - 1]

\* UPDATE events SET available_seats = available_seats - 1
\*   WHERE id = ? AND available_seats > 0, on the current row version.
DecreaseAvailableSeats(seats) ==
    IF seats > 0 THEN [rowsAffected |-> 1, seats |-> seats - 1]
    ELSE [rowsAffected |-> 0, seats |-> seats]

\* eventRepo.DecreaseAvailableSeats(tx, id) on the table evts: the UPDATE
\* matches no row when no event has this id, and RowsAffected = 0 is reported
\* as ErrEventFull; nil is "ok".
ReserveSeat(evts, id) ==
    LET d == IF id \in DOMAIN evts
             THEN DecreaseAvailableSeats(evts[id].available_seats)
             ELSE [rowsAffected |-> 0, seats |-> 0]
    IN [err |-> IF d.rowsAffected = 0 THEN ErrEventFull ELSE "ok",
        events |-> IF id \in DOMAIN evts
                   THEN [evts EXCEPT ![id].available_seats = d.seats]
                   ELSE evts]

\* UPDATE events SET available_seats = available_seats + 1 WHERE id = ?
IncreaseAvailableSeats(seats) == seats + 1

\* ---------------------------------------------------------------- test program
\* Strings are sequences of byte values, compared as Go compares strings.
testuser == <<116, 101, 115, 116, 117, 115, 101, 114>>

exampleCom == <<64, 101, 120, 97, 109, 112, 108, 101, 46, 99, 111, 109>>

organizerEmail == <<111, 114, 103, 97, 110, 105, 122, 101, 114>> \o exampleCom

\* The decimal digits of n, as fmt.Sprintf("%d", n) writes them.
RECURSIVE Itoa(_)
Itoa(n) == IF n < 10 THEN <<48 + n>> ELSE Itoa(n \div 10) \o <<48 + (n % 10)>>

\* fmt.Sprintf("testuser%d@example.com", n)
Email(n) == testuser \o Itoa(n) \o exampleCom

\* a <= b on strings: byte by byte, a proper prefix being smaller.
RECURSIVE StringLE(_, _)
StringLE(a, b) ==
    IF a = <<>> THEN TRUE
    ELSE IF b = <<>> THEN FALSE
    ELSE IF Head(a) # Head(b) THEN Head(a) < Head(b)
    ELSE StringLE(Tail(a), Tail(b))

\* const numGoroutines = 50, here TestSize; the test creates as many users,
\* testuser1 .. testuser50.
numGoroutines == TestSize

numTestUsers == TestSize

\* The literals "testuser1@example.com" and "testuser50@example.com"
firstEmail == testuser \o <<49>> \o exampleCom

lastEmail == testuser \o <<53, 48>> \o exampleCom

\* u.Email >= "testuser1@example.com" && u.Email <= "testuser50@example.com"
IsTestUser(u) == StringLE(firstEmail, u.Email) /\ StringLE(u.Email, lastEmail)

\* The loop over users that collects testUsers.
SelectTestUsers(allUsers) == SelectSeq(allUsers, IsTestUser)

\* Table users after setupConcurrencyTestData: the organizer and the test
\* users, in the order of their creation.
TestUsersTable ==
    [k \in 1..(numTestUsers + 1) |->
        [ID |-> k, Email |-> IF k = 1 THEN organizerEmail ELSE Email(k - 1)]]

NoTest == [at |-> "none", users |-> <<>>, testUsers |-> <<>>, i |-> 0,
           wg |-> 0, counted |-> {}, classified |-> {}, done |-> {},
           successCount |-> 0, failCount |-> 0,
           eventFullCount |-> 0, alreadyRegisteredCount |-> 0]

\* ---------------------------------------------------------------- transactions
\* Event.Organizer of a request body: nil, or the ID of the bound User
\* (0: the object carries no id).
NoOrganizer == -1

Organizers == {NoOrganizer, 0}

NoTx == [event |-> 0, created |-> {}, seen |-> {}, deleted |-> {}, write |-> FALSE,
         seats |-> 0, capacity |-> 0, organizer |-> NoOrganizer, user |-> 0]

\* Keys of rows of users that transactions have inserted and not yet committed.
PendingUsers == {tx[q].user : q \in Procs} \ {0}

\* db.Create(event) and db.Save(event) with a non-nil Organizer: GORM saves the
\* association before the event row, INSERT INTO users ... ON CONFLICT DO
\* NOTHING in the same transaction.  The row gets the object's id or the next
\* value of the sequence; the INSERT adds nothing when its key or its e-mail
\* is in use.  The users table and the keys each outcome leaves.
SaveOrganizer(organizer) ==
    IF organizer = NoOrganizer
    THEN {[users |-> users, keys |-> keys]}
    ELSE LET key == IF organizer = 0 THEN keys.user_id_seq ELSE organizer
             seq == IF organizer = 0 THEN keys.user_id_seq + 1
                    ELSE keys.user_id_seq
         IN {[users |-> users, keys |-> [keys EXCEPT !.user_id_seq = seq]]}
            \cup (IF key \in keys.users THEN {}
                  ELSE {[users |-> users \cup {key},
                         keys |-> [keys EXCEPT !.users = @ \cup {key},
                                               !.user_id_seq = seq]]})

\* The transaction of db.Create or db.Save is rolled back: the users table is
\* as before; the sequence keeps the value the association's INSERT took, if
\* the statement ran.
SaveOrganizerUndone(organizer) ==
    {[keys EXCEPT !.user_id_seq = s.keys.user_id_seq] :
        s \in SaveOrganizer(organizer)} \cup {keys}

\* The key the Organizer's INSERT takes lies within the bounds of the model.
OrganizerInBounds(organizer) ==
    organizer = 0 => keys.user_id_seq \in UserIDs

\* Rows of registrations locked by transactions other than p.
LockedByOthers(p) == UNION {tx[q].deleted : q \in Procs \ {p}}

\* The tables after COMMIT of p's transaction.
CommitRegistrations(p) ==
    {IF r.id \in tx[p].deleted THEN [r EXCEPT !.deleted = TRUE] ELSE r :
        r \in registrations} \cup tx[p].created

CommitEvents(p) ==
    IF tx[p].write
    THEN [events EXCEPT ![call[p].event_id].available_seats = tx[p].seats]
    ELSE events

\* The row locks after p's transaction ended.
Release(p) == [e \in DOMAIN rowLock |-> IF rowLock[e] = p THEN 0 ELSE rowLock[e]]

NoCall == [op |-> "none", user_id |-> 0, event_id |-> 0]

\* History: the cancellation that has just returned removed a live
\* registration of (u, e) when available_seats of e was seats.
NoCancel == [user_id |-> 0, event_id |-> 0, seats |-> 0]

Cancels(p, r) ==
    IF call[p].op = "cancel" /\ r = Cancelled /\ tx[p].deleted # {}
         /\ call[p].event_id \in DOMAIN events
    THEN [user_id |-> call[p].user_id, event_id |-> call[p].event_id,
          seats |-> events[call[p].event_id].available_seats]
    ELSE NoCancel

\* History: the call that returns with outcome r from position at.  undone
\* says that the call returning before it was the cancellation of this pair's
\* live registration, and seats is then the event's available_seats before
\* that cancellation.  retried says that the call returning before it was a
\* register call of this pair whose tx.Commit() failed.
Returned(op, u, e, r, at) ==
    [op |-> op, user_id |-> u, event_id |-> e, result |-> r, at |-> at,
     retried |-> (op = "register" /\ last.op = "register" /\ last.at = "commit"
                    /\ last.result = ErrDB
                    /\ last.user_id = u /\ last.event_id = e),
     undone |-> (op = "register" /\ cancelled # NoCancel
                   /\ cancelled.user_id = u /\ cancelled.event_id = e),
     seats |-> IF op = "register" /\ cancelled.user_id = u /\ cancelled.event_id = e
               THEN cancelled.seats ELSE 0]

NoReturn == [op |-> "none", user_id |-> 0, event_id |-> 0, result |-> NoResult,
             at |-> "new", retried |-> FALSE, undone |-> FALSE, seats |-> 0]

\* registration, err := registrationService.RegisterForEvent(...) in a
\* goroutine of the test program: the caller keeps what the call returned.  An
\* HTTP handler answers with it at once.
Outcome(p, r) ==
    IF test.at = "none" THEN result ELSE [result EXCEPT ![p] = r]

\* The call returns outcome r; its handler is finished.
Return(p, r) ==
    /\ pc' = [pc EXCEPT ![p] = "done"]
    /\ call' = [call EXCEPT ![p] = NoCall]
    /\ tx' = [tx EXCEPT ![p] = NoTx]
    /\ prior' = [prior EXCEPT ![p] = FALSE]
    /\ refused' = IF r = ErrEventFull THEN refused + 1 ELSE refused
    /\ last' = Returned(call[p].op, call[p].user_id, call[p].event_id, r, pc[p])
    /\ result' = Outcome(p, r)
    /\ cancelled' = Cancels(p, r)

\* Faulty variant of Rollback: the error path commits the transaction's writes.
RollbackCommits(p, r) ==
    /\ registrations' = CommitRegistrations(p)
    /\ events' = CommitEvents(p)
    /\ rowLock' = Release(p)
    /\ Return(p, r)
    /\ UNCHANGED <<test, keys, users, nextRegID, seatsTaken>>

\* Faulty variant of Rollback: the error path returns without tx.Rollback(),
\* so the transaction stays open and keeps its row locks.
RollbackLeaks(p, r) ==
    /\ rowLock' = rowLock
    /\ Return(p, r)
    /\ UNCHANGED <<test, keys, users, events, registrations, nextRegID, seatsTaken>>

\* tx.Rollback(); return err
Rollback(p, r) ==
    /\ rowLock' = Release(p)
    /\ Return(p, r)
    /\ UNCHANGED <<test, keys, users, events, registrations, nextRegID, seatsTaken>>

\* ---------------------------------------------------------------- requests
\* History: a register call for (u, e) has committed.
Taken(u, e) ==
    IF u \in DOMAIN seatsTaken
    THEN IF e \in DOMAIN seatsTaken[u] THEN seatsTaken[u][e] > 0 ELSE FALSE
    ELSE FALSE

\* A request (op, u, e) arrives.  Handler p serves the p-th request.
Accept(p, op, u, e) ==
    /\ pc[p] = "new"
    /\ (IF p = 1 THEN TRUE ELSE pc[p - 1] # "new")
    /\ call' = [call EXCEPT ![p] = [op |-> op, user_id |-> u, event_id |-> e]]
    /\ prior' = [prior EXCEPT ![p] = Taken(u, e)]
    /\ UNCHANGED <<test, keys, users, events, registrations, nextRegID, rowLock, tx,
                   seatsTaken, refused, last, result, cancelled>>

Running(p) == pc[p] \notin {"new", "done"}

\* ---------------------------------------------------------------- RegisterForEvent
\* s.userRepo.FindByID(userID) finds the user; tx := s.db.Begin()
RegisterForEvent(p, u, e) ==
    /\ u \in users
    /\ Accept(p, "register", u, e)
    /\ pc' = [pc EXCEPT ![p] = "find_existing"]

\* Faulty variant of RegisterNoUser: every error of the user lookup is reported
\* as ErrUserNotFound, for users that exist as well.
RegisterNoUserAny(p, u, e, r) ==
    /\ pc[p] = "new"
    /\ (IF p = 1 THEN TRUE ELSE pc[p - 1] # "new")
    /\ r \in {ErrUserNotFound, ErrDB}
    /\ pc' = [pc EXCEPT ![p] = "done"]
    /\ refused' = refused
    /\ last' = Returned("register", u, e, ErrUserNotFound, pc[p])
    /\ result' = Outcome(p, ErrUserNotFound)
    /\ cancelled' = NoCancel
    /\ UNCHANGED <<test, keys, users, events, registrations, nextRegID, rowLock, call, tx,
                   seatsTaken, prior>>

\* s.userRepo.FindByID(userID) returns gorm.ErrRecordNotFound (r = ErrUserNotFound)
\* or another error (r = ErrDB): the call returns before any transaction.
RegisterNoUser(p, u, e, r) ==
    /\ pc[p] = "new"
    /\ (IF p = 1 THEN TRUE ELSE pc[p - 1] # "new")
    /\ r \in {ErrUserNotFound, ErrDB}
    /\ (r = ErrUserNotFound) => (u \notin users)
    /\ pc' = [pc EXCEPT ![p] = "done"]
    /\ refused' = refused
    /\ last' = Returned("register", u, e, r, pc[p])
    /\ result' = Outcome(p, r)
    /\ cancelled' = NoCancel
    /\ UNCHANGED <<test, keys, users, events, registrations, nextRegID, rowLock, call, tx,
                   seatsTaken, prior>>

\* Faulty variant of RegFindExisting: the duplicate lookup is left out.
RegFindExistingSkipped(p) ==
    /\ pc[p] = "find_existing"
    /\ pc' = [pc EXCEPT ![p] = "lock_event"]
    /\ UNCHANGED <<test, keys, users, events, registrations, nextRegID, rowLock,
                   call, tx, seatsTaken, refused, prior, last, result, cancelled>>

\* tx.Where("user_id = ? AND event_id = ?").First(&existingReg)
RegFindExisting(p) ==
    /\ pc[p] = "find_existing"
    /\ IF LiveRows(registrations, call[p].user_id, call[p].event_id) # {}
       THEN Rollback(p, ErrAlreadyRegistered)
       ELSE /\ pc' = [pc EXCEPT ![p] = "lock_event"]
            /\ UNCHANGED <<test, keys, users, events, registrations, nextRegID, rowLock,
                           call, tx, seatsTaken, refused, prior, last, result, cancelled>>

\* eventRepo.FindByID: the same read without the FOR UPDATE clause.  It takes
\* no lock and waits for none.
FindByID(p) ==
    /\ pc[p] = "lock_event"
    /\ IF call[p].event_id \notin DOMAIN events
       THEN Rollback(p, ErrEventNotFound)
       ELSE /\ tx' = [tx EXCEPT ![p].event = events[call[p].event_id].available_seats]
            /\ pc' = [pc EXCEPT ![p] = "create"]
            /\ UNCHANGED <<test, keys, users, events, registrations, nextRegID, rowLock,
                           call, seatsTaken, refused, prior, last, result, cancelled>>

\* Faulty variant of FindByIDForUpdate: the locking clause is missing.
FindByIDUnlocked(p) == FindByID(p)

\* s.eventRepo.FindByIDForUpdate(tx, eventID): SELECT ... FOR UPDATE
FindByIDForUpdate(p) ==
    /\ pc[p] = "lock_event"
    /\ IF call[p].event_id \notin DOMAIN events
       THEN Rollback(p, ErrEventNotFound)
       ELSE /\ rowLock[call[p].event_id] = 0
            /\ rowLock' = [rowLock EXCEPT ![call[p].event_id] = p]
            /\ tx' = [tx EXCEPT ![p].event = events[call[p].event_id].available_seats]
            /\ pc' = [pc EXCEPT ![p] = "create"]
            /\ UNCHANGED <<test, keys, users, events, registrations, nextRegID, call,
                           seatsTaken, refused, prior, last, result, cancelled>>

\* if event.AvailableSeats <= 0 { rollback, ErrEventFull }
\* tx.Clauses(clause.OnConflict{DoNothing: true}).Create(registration)
RegCreate(p) ==
    /\ pc[p] = "create"
    /\ IF tx[p].event <= 0
       THEN Rollback(p, ErrEventFull)
       ELSE /\ tx' = [tx EXCEPT ![p].created =
                        CreateOnConflictDoNothing(registrations,
                            Row(nextRegID, call[p].user_id, call[p].event_id))]
            /\ nextRegID' = nextRegID + 1
            /\ pc' = [pc EXCEPT ![p] = "decrement"]
            /\ UNCHANGED <<test, keys, users, events, registrations, rowLock, call,
                           seatsTaken, refused, prior, last, result, cancelled>>

\* The conditional decrement and its RowsAffected check.  An UPDATE waits for
\* the row lock and keeps it; here the transaction already holds it.
RegDecrement(p) ==
    /\ pc[p] = "decrement"
    /\ rowLock[call[p].event_id] \in {0, p}
    /\ LET d == DecreaseAvailableSeats(events[call[p].event_id].available_seats)
       IN IF d.rowsAffected = 0
          THEN Rollback(p, ErrEventFull)
          ELSE /\ tx' = [tx EXCEPT ![p].write = TRUE, ![p].seats = d.seats]
               /\ rowLock' = [rowLock EXCEPT ![call[p].event_id] = p]
               /\ pc' = [pc EXCEPT ![p] = "commit"]
               /\ UNCHANGED <<test, keys, users, events, registrations, nextRegID,
                              call, seatsTaken, refused, prior, last, result, cancelled>>

\* tx.Commit() succeeds: the writes are in the tables and the row lock is
\* free.  The call has not returned yet.
RegCommit(p) ==
    /\ pc[p] = "commit"
    /\ call[p].op = "register"
    /\ registrations' = CommitRegistrations(p)
    /\ events' = CommitEvents(p)
    /\ rowLock' = Release(p)
    /\ seatsTaken' = [seatsTaken EXCEPT ![call[p].user_id][call[p].event_id] = @ + 1]
    /\ tx' = [tx EXCEPT ![p] = NoTx]
    /\ pc' = [pc EXCEPT ![p] = "reload"]
    /\ UNCHANGED <<test, keys, users, nextRegID, call, refused, prior, last, result,
                   cancelled>>

\* s.registrationRepo.FindByUserAndEventID(userID, eventID): one more read
\* outside the transaction, whose result and error are dropped;
\* return registration, nil
RegReload(p) ==
    /\ pc[p] = "reload"
    /\ Return(p, Registered)
    /\ UNCHANGED <<test, keys, users, events, registrations, nextRegID, rowLock,
                   seatsTaken>>

\* A statement of the transaction, or its commit, returns another error:
\* tx.Rollback() (a failed commit ends the transaction) and return err.
RegError(p) ==
    /\ call[p].op = "register"
    /\ pc[p] \in {"find_existing", "lock_event", "create", "decrement", "commit"}
    /\ pc[p] = "create" => tx[p].event > 0
    /\ Rollback(p, ErrDB)

\* ---------------------------------------------------------------- CancelRegistration
\* tx := s.db.Begin()
CancelRegistration(p, u, e) ==
    /\ Accept(p, "cancel", u, e)
    /\ pc' = [pc EXCEPT ![p] = "delete"]

\* tx.Where(...).Delete(&models.Registration{}): the soft delete of the pair's
\* live rows, which stay locked until the transaction ends.  The UPDATE works
\* on the rows that are live when it starts.  When another transaction holds
\* one of them the statement waits (pc "delete_wait"), holding the rows it has
\* reached so far; when it goes on it deletes those of its rows that are still
\* live, and no row committed after it started.
CancelDelete(p) ==
    /\ pc[p] \in {"delete", "delete_wait"}
    /\ LET live == {r.id : r \in LiveRows(registrations, call[p].user_id,
                                          call[p].event_id)}
           seen == IF pc[p] = "delete" THEN live ELSE tx[p].seen
           locked == seen \cap LockedByOthers(p)
       IN IF pc[p] = "delete" /\ locked # {}
          THEN /\ \E got \in SUBSET (seen \ locked) :
                     tx' = [tx EXCEPT ![p].seen = seen, ![p].deleted = got]
               /\ pc' = [pc EXCEPT ![p] = "delete_wait"]
          ELSE /\ locked = {}
               /\ tx' = [tx EXCEPT ![p].seen = {}, ![p].deleted = seen \cap live]
               /\ pc' = [pc EXCEPT ![p] = "increment"]
    /\ UNCHANGED <<test, keys, users, events, registrations, nextRegID, rowLock, call,
                   seatsTaken, refused, prior, last, result, cancelled>>

\* tx.Model(&models.Event{}).Where("id = ?", eventID).
\*    Update("available_seats", gorm.Expr("available_seats + 1"))
CancelIncrement(p) ==
    /\ pc[p] = "increment"
    /\ IF call[p].event_id \in DOMAIN events
       THEN /\ rowLock[call[p].event_id] = 0
            /\ rowLock' = [rowLock EXCEPT ![call[p].event_id] = p]
            /\ tx' = [tx EXCEPT ![p].write = TRUE,
                        ![p].seats = IncreaseAvailableSeats(
                                       events[call[p].event_id].available_seats)]
       ELSE UNCHANGED <<rowLock, tx>>
    /\ pc' = [pc EXCEPT ![p] = "commit"]
    /\ UNCHANGED <<test, keys, users, events, registrations, nextRegID, call,
                   seatsTaken, refused, prior, last, result, cancelled>>

\* return tx.Commit().Error, the commit succeeding
CancelCommit(p) ==
    /\ pc[p] = "commit"
    /\ call[p].op = "cancel"
    /\ registrations' = CommitRegistrations(p)
    /\ events' = CommitEvents(p)
    /\ rowLock' = Release(p)
    /\ Return(p, Cancelled)
    /\ UNCHANGED <<test, keys, users, nextRegID, seatsTaken>>

\* A statement of the cancellation, or its commit, returns an error.
CancelError(p) ==
    /\ call[p].op = "cancel"
    /\ pc[p] \in {"delete", "delete_wait", "increment", "commit"}
    /\ Rollback(p, ErrDB)

\* ---------------------------------------------------------------- UpdateEvent
\* The request returns outcome r before it writes anything.
UpdateRefused(p, e, r) ==
    /\ pc' = [pc EXCEPT ![p] = "done"]
    /\ last' = Returned("update", 0, e, r, pc[p])
    /\ result' = Outcome(p, r)
    /\ cancelled' = NoCancel
    /\ UNCHANGED <<test, keys, users, events, registrations, nextRegID, rowLock, call, tx,
                   seatsTaken, refused, prior>>

\* PUT /events/:id whose id strconv.ParseUint rejects (r = ErrInvalidID) or
\* whose body c.ShouldBindJSON rejects (r = ErrBind): 400, nothing is read.
UpdateInvalid(p, r) ==
    /\ pc[p] = "new"
    /\ (IF p = 1 THEN TRUE ELSE pc[p - 1] # "new")
    /\ r \in {ErrInvalidID, ErrBind}
    /\ UpdateRefused(p, 0, r)

\* PUT /events/:id with capacity cap, available_seats seats and Organizer
\* organizer in the body: GetEventByID (a plain read of the committed row),
\* whose every error, no row or any other, is answered 404; then the capacity
\* check.  The row the handler will save keeps the body's available_seats
\* unless the capacity is reduced.
UpdateEvent(p, e, cap, seats, organizer) ==
    /\ pc[p] = "new"
    /\ OrganizerInBounds(organizer)
    /\ (IF p = 1 THEN TRUE ELSE pc[p - 1] # "new")
    /\ \/ UpdateRefused(p, e, ErrEventNotFound)
       \/ /\ e \in DOMAIN events
          /\ LET existingEvent == events[e]
                 registrationsCount ==
                     existingEvent.capacity - existingEvent.available_seats
             IN IF cap < existingEvent.capacity /\ cap < registrationsCount
                THEN UpdateRefused(p, e, ErrBadRequest)
                ELSE /\ call' = [call EXCEPT ![p] =
                                   [op |-> "update", user_id |-> 0, event_id |-> e]]
                     /\ tx' = [tx EXCEPT ![p].capacity = cap,
                                 ![p].seats = IF cap < existingEvent.capacity
                                              THEN cap - registrationsCount
                                              ELSE seats,
                                 ![p].organizer = organizer]
                     /\ pc' = [pc EXCEPT ![p] = "save"]
                     /\ UNCHANGED <<test, keys, users, events, registrations,
                                    nextRegID, rowLock, seatsTaken, refused, prior,
                                    last, result, cancelled>>

\* eventRepo.Update, db.Save(event) on a body with an Organizer: a
\* transaction of Save begins and the Organizer is saved first.  The INSERT
\* takes its key from the sequence at once; the row it adds stays uncommitted
\* in tx[p].user, and the Organizer has that id from then on.  Save runs two
\* transactions when its UPDATE matches no row: the UPDATE's (from pc "save")
\* and the upsert's (from pc "upsert").
UpdateBegin(p) ==
    /\ pc[p] \in {"save", "upsert"}
    /\ tx[p].organizer # NoOrganizer
    /\ OrganizerInBounds(tx[p].organizer)
    /\ \E s \in SaveOrganizer(tx[p].organizer) :
          LET added == s.users \ users
          IN /\ keys' = [keys EXCEPT !.user_id_seq = s.keys.user_id_seq]
             /\ tx' = IF added = {} THEN tx
                      ELSE [tx EXCEPT ![p].user = CHOOSE k \in added : TRUE,
                                      ![p].organizer = CHOOSE k \in added : TRUE]
    /\ pc' = [pc EXCEPT ![p] = IF pc[p] = "save" THEN "update" ELSE "upsert_row"]
    /\ UNCHANGED <<test, users, events, registrations, nextRegID, rowLock, call,
                   seatsTaken, refused, prior, last, result, cancelled>>

\* db.Save(event): the statement on the events row, the first statement of
\* its transaction when the body has no Organizer.  The UPDATE of the whole
\* row waits while another transaction holds the row lock and then holds the
\* lock itself; the new row stays uncommitted.  When the event was deleted
\* after the handler read it, the UPDATE matches no row and takes no lock.
\* The upsert of Save's second transaction, INSERT ... ON CONFLICT DO UPDATE,
\* waits for and takes the lock of the row of its id, soft-deleted or live.
UpdateSave(p) ==
    /\ \/ pc[p] \in {"update", "upsert_row"}
       \/ pc[p] \in {"save", "upsert"} /\ tx[p].organizer = NoOrganizer
    /\ IF pc[p] \in {"save", "update"} /\ call[p].event_id \notin DOMAIN events
       THEN /\ UNCHANGED <<rowLock, tx>>
            /\ pc' = [pc EXCEPT ![p] = "update_commit"]
       ELSE /\ rowLock[call[p].event_id] = 0
            /\ rowLock' = [rowLock EXCEPT ![call[p].event_id] = p]
            /\ tx' = [tx EXCEPT ![p].write = TRUE]
            /\ pc' = [pc EXCEPT ![p] = IF pc[p] \in {"save", "update"}
                                       THEN "update_commit" ELSE "upsert_commit"]
    /\ UNCHANGED <<test, keys, users, events, registrations, nextRegID, call,
                   seatsTaken, refused, prior, last, result, cancelled>>

\* A transaction of db.Save commits: the Organizer's row reaches the users
\* table.  The transaction whose statement wrote the row puts it in the
\* events table and releases the lock, and the handler answers 200; the
\* effect of the upsert on a soft-deleted row is GORM's: the row stays
\* deleted, or it is live again with the body's values.  The transaction
\* whose UPDATE matched no row commits without it, and Save goes on to the
\* upsert in a second transaction.
UpdateCommit(p) ==
    /\ pc[p] \in {"update_commit", "upsert_commit"}
    /\ users' = users \cup ({tx[p].user} \ {0})
    /\ keys' = [keys EXCEPT !.users = @ \cup ({tx[p].user} \ {0})]
    /\ IF tx[p].write
       THEN /\ LET id == call[p].event_id
                   row == [capacity |-> tx[p].capacity,
                           available_seats |-> tx[p].seats]
               IN IF id \in DOMAIN events
                  THEN events' = [events EXCEPT ![id] = row]
                  ELSE \/ events' = events
                       \/ events' = [e \in DOMAIN events \cup {id} |->
                                       IF e = id THEN row ELSE events[e]]
            /\ rowLock' = Release(p)
            /\ Return(p, Updated)
       ELSE /\ tx' = [tx EXCEPT ![p].user = 0]
            /\ pc' = [pc EXCEPT ![p] = "upsert"]
            /\ UNCHANGED <<events, rowLock, call, refused, prior, last, result,
                           cancelled>>
    /\ UNCHANGED <<test, registrations, nextRegID, seatsTaken>>

\* A statement of db.Save, or a commit, returns an error: the open
\* transaction is rolled back and the handler answers 500.  It writes no
\* row; the sequence keeps the value the Organizer's INSERT took, if the
\* statement ran, and what Save's first transaction committed stays.
UpdateError(p) ==
    /\ pc[p] \in {"save", "update", "update_commit",
                  "upsert", "upsert_row", "upsert_commit"}
    /\ IF pc[p] \in {"save", "upsert"} /\ OrganizerInBounds(tx[p].organizer)
       THEN keys' \in SaveOrganizerUndone(tx[p].organizer)
       ELSE keys' = keys
    /\ rowLock' = Release(p)
    /\ Return(p, ErrDB)
    /\ UNCHANGED <<test, users, events, registrations, nextRegID, seatsTaken>>

\* ---------------------------------------------------------------- DeleteEvent, users
\* A request that one statement serves returns outcome r.  The history keeps
\* the operation and its outcome.
Served(p, op, u, e, r) ==
    /\ pc[p] = "new"
    /\ (IF p = 1 THEN TRUE ELSE pc[p - 1] # "new")
    /\ pc' = [pc EXCEPT ![p] = "done"]
    /\ last' = Returned(op, 0, 0, r, "new")
    /\ result' = Outcome(p, r)
    /\ cancelled' = NoCancel
    /\ UNCHANGED <<test, registrations, nextRegID, call, tx, seatsTaken, refused,
                   prior>>

\* DELETE /events/:id: eventRepo.Delete, the soft delete of the event row in
\* its own transaction.  The UPDATE waits while another transaction holds the
\* lock of the live row; it matches no row, and waits for none, when the id
\* has no live event, which is no error.
DeleteEvent(p, e) ==
    /\ Served(p, "delete", 0, e, Deleted)
    /\ e \in DOMAIN events => rowLock[e] = 0
    /\ events' = [x \in DOMAIN events \ {e} |-> events[x]]
    /\ UNCHANGED <<keys, users, rowLock>>

\* eventService.DeleteEvent returns an error: 500, nothing deleted.
DeleteEventError(p, e) ==
    /\ Served(p, "delete", 0, e, ErrDB)
    /\ UNCHANGED <<keys, users, events, rowLock>>

\* DELETE /events/:id whose id strconv.ParseUint rejects: 400, no statement
\* runs.
DeleteEventInvalid(p) ==
    /\ Served(p, "delete", 0, 0, ErrInvalidID)
    /\ UNCHANGED <<keys, users, events, rowLock>>

\* userService.CreateUser on a user whose ID is id (0: not set), db.Create:
\* the row gets the next value of the sequence, or id; an INSERT whose key is
\* in use fails.
CreateUser(p, id) ==
    LET key == IF id = 0 THEN keys.user_id_seq ELSE id
        seq == IF id = 0 THEN keys.user_id_seq + 1 ELSE keys.user_id_seq
    IN /\ pc[p] = "new"
       /\ key \in UserIDs
       /\ key \notin PendingUsers
       /\ IF key \in keys.users
          THEN /\ Served(p, "create_user", key, 0, ErrDB)
               /\ users' = users
               /\ keys' = [keys EXCEPT !.user_id_seq = seq]
          ELSE /\ Served(p, "create_user", key, 0, Created)
               /\ users' = users \cup {key}
               /\ keys' = [keys EXCEPT !.users = @ \cup {key}, !.user_id_seq = seq]
       /\ UNCHANGED <<events, rowLock>>

\* userService.UpdateUser on a user whose ID is id, db.Save: the UPDATE of the
\* live row; when it matches no row Save goes on to an upsert, after which the
\* id has a live row or none.
UpdateUser(p, id) ==
    /\ Served(p, "update_user", id, 0, Updated)
    /\ id \notin PendingUsers
    /\ IF id \in users
       THEN UNCHANGED <<users, keys>>
       ELSE \/ UNCHANGED <<users, keys>>
            \/ /\ users' = users \cup {id}
               /\ keys' = [keys EXCEPT !.users = @ \cup {id}]
    /\ UNCHANGED <<events, rowLock>>

\* userService.DeleteUser: db.Delete(&models.User{}, id), the soft delete of
\* the row.  It waits for no lock a registration holds, and it matches no row
\* when the id has no user, which is no error.
DeleteUser(p, id) ==
    /\ Served(p, "delete_user", id, 0, Deleted)
    /\ users' = users \ {id}
    /\ UNCHANGED <<keys, events, rowLock>>

\* A user operation on a user whose ID is id (0: not set) returns the
\* datastore's error (a duplicate email, a lost connection): no row is
\* written.  The INSERT of CreateUser without id, when it ran, has taken a
\* value of the sequence.
UserError(p, op, id) ==
    /\ op \in {"create_user", "update_user", "delete_user"}
    /\ id = 0 => op = "create_user"
    /\ Served(p, op, id, 0, ErrDB)
    /\ \/ keys' = keys
       \/ /\ op = "create_user" /\ id = 0
          /\ keys.user_id_seq \in UserIDs
          /\ keys' = [keys EXCEPT !.user_id_seq = @ + 1]
    /\ UNCHANGED <<users, events, rowLock>>

\* ---------------------------------------------------------------- HTTP layer
StatusOK == 200
StatusCreated == 201
StatusBadRequest == 400
StatusNotFound == 404
StatusConflict == 409
StatusInternalServerError == 500

\* Faulty variant of RegisterStatus: ErrEventFull falls through to the default.
RegisterStatusNoFull(r) ==
    IF r = Registered THEN StatusCreated
    ELSE IF r = ErrUserNotFound THEN StatusNotFound
    ELSE IF r = ErrEventNotFound THEN StatusNotFound
    ELSE IF r = ErrAlreadyRegistered THEN StatusConflict
    ELSE StatusInternalServerError

\* RegistrationHandler.RegisterForEvent: the switch on the service's error.
RegisterStatus(r) ==
    IF r = Registered THEN StatusCreated
    ELSE IF r = ErrUserNotFound THEN StatusNotFound
    ELSE IF r = ErrEventNotFound THEN StatusNotFound
    ELSE IF r = ErrEventFull THEN StatusConflict
    ELSE IF r = ErrAlreadyRegistered THEN StatusConflict
    ELSE StatusInternalServerError

\* RegistrationHandler.CancelRegistration: 500 on any error, 200 otherwise.
CancelStatus(r) ==
    IF r # Cancelled THEN StatusInternalServerError ELSE StatusOK

\* The status the handler of the call that returned last answers with.
ResponseStatus ==
    IF last.op = "register" THEN RegisterStatus(last.result)
    ELSE IF last.op = "cancel" THEN CancelStatus(last.result)
    ELSE 0

\* ---------------------------------------------------------------- specifications
\* eventService.CreateEvent: available_seats = capacity (> 0, checked by the handler)
CreateEvent(cap) == [capacity |-> cap, available_seats |-> cap]

\* Faulty variant of HandleCreateEvent: the body is stored as it came.
HandleCreateEventAsSent(bind, cap, seats, err) ==
    IF ~bind
    THEN [status |-> StatusBadRequest, result |-> ErrBind, rows |-> {}]
    ELSE IF err
    THEN [status |-> StatusInternalServerError, result |-> ErrDB, rows |-> {}]
    ELSE [status |-> StatusCreated, result |-> Created,
          rows |-> {[capacity |-> cap, available_seats |-> seats]}]

\* EventHandler.CreateEvent on a body with capacity cap and available_seats
\* seats: the status, the outcome and the rows it inserts.  bind says that
\* c.ShouldBindJSON accepts the body, err that eventService.CreateEvent
\* returns an error.
HandleCreateEvent(bind, cap, seats, err) ==
    IF ~bind
    THEN [status |-> StatusBadRequest, result |-> ErrBind, rows |-> {}]
    ELSE IF cap <= 0
    THEN [status |-> StatusBadRequest, result |-> ErrCapacity, rows |-> {}]
    ELSE LET bound == [capacity |-> cap, available_seats |-> seats]
             event == [bound EXCEPT !.available_seats = bound.capacity]
         IN IF err
            THEN [status |-> StatusInternalServerError, result |-> ErrDB,
                  rows |-> {}]
            ELSE [status |-> StatusCreated, result |-> Created,
                  rows |-> {CreateEvent(event.capacity)}]

\* POST /events with a body whose id is id (0: not set) and whose Organizer
\* is organizer: db.Create saves the Organizer, then the new row gets the
\* next value of the sequence, or id.  The INSERT fails when its key is in
\* use, by a soft-deleted row as well, and for any other datastore error (an
\* organizer_id without a user); the transaction is then rolled back, and the
\* sequence keeps the value the INSERT took if the statement ran.  The
\* history keeps the body's available_seats in last.seats.
CreateEventRequest(p, bind, id, cap, seats, organizer) ==
    /\ pc[p] = "new"
    /\ OrganizerInBounds(organizer)
    /\ (IF p = 1 THEN TRUE ELSE pc[p - 1] # "new")
    /\ LET key == IF id = 0 THEN keys.event_id_seq ELSE id
       IN \E err \in BOOLEAN :
         LET res == HandleCreateEvent(bind, cap, seats, err)
             inserts == bind /\ res.result # ErrCapacity
         IN /\ inserts => key \in EventIDs
            /\ (inserts /\ key \in keys.events) => err
            /\ pc' = [pc EXCEPT ![p] = "done"]
            /\ events' = IF res.rows = {} THEN events
                         ELSE [e \in DOMAIN events \cup {key} |->
                                 IF e = key THEN CHOOSE row \in res.rows : TRUE
                                 ELSE events[e]]
            /\ rowLock' = [e \in DOMAIN rowLock \cup DOMAIN events' |->
                             IF e \in DOMAIN rowLock THEN rowLock[e] ELSE 0]
            /\ \E s \in (IF ~inserts THEN {[users |-> users, keys |-> keys]}
                        ELSE IF err
                        THEN {[users |-> users, keys |-> k] :
                                 k \in SaveOrganizerUndone(organizer)}
                        ELSE SaveOrganizer(organizer)) :
                  /\ users' = s.users
                  /\ \E ran \in (IF inserts /\ err THEN BOOLEAN ELSE {inserts}) :
                       keys' = [s.keys EXCEPT
                          !.events = @ \cup DOMAIN events',
                          !.event_id_seq = IF ran /\ id = 0 THEN @ + 1 ELSE @]
            /\ last' = [Returned("create", 0, IF res.rows = {} THEN 0 ELSE key,
                                 res.result, "new") EXCEPT !.seats = seats]
            /\ result' = Outcome(p, res.result)
            /\ cancelled' = NoCancel
            /\ UNCHANGED <<test, registrations, nextRegID, call, tx,
                           seatsTaken, refused, prior>>

\* No call has arrived; the tables hold the users and the freshly created events.
InitCalls ==
    /\ registrations = {}
    /\ nextRegID = 1
    /\ rowLock = [e \in DOMAIN events |-> 0]
    /\ keys = [users |-> users, user_id_seq |-> Cardinality(users) + 1,
               events |-> DOMAIN events,
               event_id_seq |-> Cardinality(DOMAIN events) + 1]
    /\ seatsTaken = [u \in UserIDs \cup users |->
                       [e \in EventIDs \cup DOMAIN events |-> 0]]
    /\ refused = 0
    /\ pc = [p \in Handlers |-> "new"]
    /\ call = [p \in Procs |-> NoCall]
    /\ tx = [p \in Procs |-> NoTx]
    /\ prior = [p \in Procs |-> FALSE]
    /\ last = NoReturn
    /\ result = [p \in Procs |-> NoResult]
    /\ cancelled = NoCancel
    /\ test = NoTest

Init ==
    /\ users = 1..NumUsers
    /\ events \in [1..NumEvents -> {CreateEvent(c) : c \in 1..MaxCap}]
    /\ InitCalls

RegisterStep(p) ==
    \/ \E u \in UserIDs, e \in EventIDs : RegisterForEvent(p, u, e)
    \/ \E u \in UserIDs, e \in EventIDs : RegisterNoUser(p, u, e, ErrUserNotFound)
    \/ RegFindExisting(p)
    \/ FindByIDForUpdate(p)
    \/ RegCreate(p)
    \/ RegDecrement(p)
    \/ RegCommit(p)
    \/ RegReload(p)

RegisterFailure(p) ==
    \/ \E u \in UserIDs, e \in EventIDs : RegisterNoUser(p, u, e, ErrDB)
    \/ RegError(p)

CancelStep(p) ==
    \/ \E u \in UserIDs, e \in EventIDs : CancelRegistration(p, u, e)
    \/ CancelDelete(p)
    \/ CancelIncrement(p)
    \/ CancelCommit(p)
    \/ CancelError(p)

\* Any interleaving of register and cancel calls, with datastore errors.
Next == \E p \in Procs : RegisterStep(p) \/ RegisterFailure(p) \/ CancelStep(p)

Spec == Init /\ [][Next]_vars

\* Fair scheduling: a handler whose next statement can run, and succeed, does
\* run it; a statement that waits for a row lock runs once the lock stays
\* free.  Datastore errors may happen but are never forced.
Continue(p) ==
    \/ RegFindExisting(p)
    \/ FindByIDForUpdate(p)
    \/ RegCreate(p)
    \/ RegDecrement(p)
    \/ RegCommit(p)
    \/ RegReload(p)
    \/ CancelDelete(p)
    \/ CancelIncrement(p)
    \/ CancelCommit(p)

SpecFair == Init /\ [][Next]_vars /\ \A p \in Handlers : WF_vars(Continue(p))

\* Register calls only.
NextRegister == \E p \in Procs : RegisterStep(p) \/ RegisterFailure(p)

SpecRegister == Init /\ [][NextRegister]_vars

\* Register calls only, those of one (user, event) pair one after another:
\* a call for a pair arrives when no other call for that pair is running.
Solo(p, u, e) ==
    \A q \in Procs \ {p} :
        Running(q) => ~(call[q].user_id = u /\ call[q].event_id = e)

RegisterAfter(p) ==
    \/ \E u \in UserIDs, e \in EventIDs : Solo(p, u, e) /\ RegisterForEvent(p, u, e)
    \/ \E u \in UserIDs, e \in EventIDs :
          Solo(p, u, e) /\ RegisterNoUser(p, u, e, ErrUserNotFound)
    \/ \E u \in UserIDs, e \in EventIDs : Solo(p, u, e) /\ RegisterNoUser(p, u, e, ErrDB)
    \/ RegFindExisting(p)
    \/ FindByIDForUpdate(p)
    \/ RegCreate(p)
    \/ RegDecrement(p)
    \/ RegCommit(p)
    \/ RegReload(p)
    \/ RegError(p)

NextRegisterTwice == \E p \in Procs : RegisterAfter(p)

SpecRegisterTwice == Init /\ [][NextRegisterTwice]_vars

\* One caller: a call arrives when every earlier call has returned.
Quiet(p) == \A q \in Procs \ {p} : ~Running(q)

NextSequential ==
    \E p \in Procs :
        Quiet(p) /\ (RegisterStep(p) \/ RegisterFailure(p) \/ CancelStep(p))

SpecSequential == Init /\ [][NextSequential]_vars

\* Overlapping cancellations: a cancel call never arrives right after a cancel
\* call returned, so a cancel call that returns right after another one was
\* already running when that one returned.
CancelOverlapping(p) ==
    \/ \E u \in UserIDs, e \in EventIDs :
          last.op # "cancel" /\ CancelRegistration(p, u, e)
    \/ CancelDelete(p)
    \/ CancelIncrement(p)
    \/ CancelCommit(p)
    \/ CancelError(p)

NextCancelTwice ==
    \E p \in Procs : RegisterStep(p) \/ RegisterFailure(p) \/ CancelOverlapping(p)

SpecCancelTwice == Init /\ [][NextCancelTwice]_vars

\* Register and cancel calls on a datastore in which every event id the calls
\* use has an event.
InitEvents ==
    /\ users = 1..NumUsers
    /\ events \in [EventIDs -> {CreateEvent(c) : c \in 1..MaxCap}]
    /\ InitCalls

NextEvents == \E p \in Procs : RegisterStep(p) \/ CancelStep(p)

SpecEvents == InitEvents /\ [][NextEvents]_vars

\* Register calls only, in the variant of RegisterForEvent that reads the
\* event row without FOR UPDATE: the conditional decrement is the only guard
\* that works on the current row.
RegisterUnlocked(p) ==
    \/ \E u \in UserIDs, e \in EventIDs : RegisterForEvent(p, u, e)
    \/ \E u \in UserIDs, e \in EventIDs : RegisterNoUser(p, u, e, ErrUserNotFound)
    \/ RegFindExisting(p)
    \/ FindByID(p)
    \/ RegCreate(p)
    \/ RegDecrement(p)
    \/ RegCommit(p)
    \/ RegReload(p)

NextNoLock == \E p \in Procs : RegisterUnlocked(p) \/ RegisterFailure(p)

SpecNoLock == Init /\ [][NextNoLock]_vars

\* Events are created through the API, and users register and cancel.
InitCreate ==
    /\ users = 1..NumUsers
    /\ events = [e \in {} |-> CreateEvent(1)]
    /\ InitCalls

CreateStep(p) ==
    \/ CreateEventRequest(p, FALSE, 0, 0, 0, NoOrganizer)
    \/ \E id \in {0} \cup EventIDs, cap \in (-1)..MaxCap, seats \in {0, MaxCap},
          organizer \in Organizers :
          CreateEventRequest(p, TRUE, id, cap, seats, organizer)

NextCreate == \E p \in Procs : CreateStep(p) \/ RegisterStep(p) \/ CancelStep(p)

SpecCreate == InitCreate /\ [][NextCreate]_vars

\* DELETE /events/:id on any event id, with its error paths.
DeleteStep(p) ==
    \/ \E e \in EventIDs : DeleteEvent(p, e)
    \/ \E e \in EventIDs : DeleteEventError(p, e)
    \/ DeleteEventInvalid(p)

\* Register, cancel and event-update calls in any interleaving.
UpdateStep(p) ==
    \/ \E e \in EventIDs, cap \in 1..MaxCap, seats \in 0..MaxCap,
          organizer \in Organizers :
          UpdateEvent(p, e, cap, seats, organizer)
    \/ \E r \in {ErrInvalidID, ErrBind} : UpdateInvalid(p, r)
    \/ UpdateBegin(p)
    \/ UpdateSave(p)
    \/ UpdateCommit(p)
    \/ UpdateError(p)

NextUpdate ==
    \E p \in Procs :
        RegisterStep(p) \/ RegisterFailure(p) \/ CancelStep(p) \/ UpdateStep(p)

SpecUpdate == Init /\ [][NextUpdate]_vars

\* Register, cancel, event-update and event-delete calls in any interleaving.
NextEventWrites ==
    \E p \in Procs :
        \/ RegisterStep(p) \/ RegisterFailure(p) \/ CancelStep(p)
        \/ UpdateStep(p) \/ DeleteStep(p)

SpecEventWrites == Init /\ [][NextEventWrites]_vars

\* Every operation of the API that writes a table, in any interleaving.
UserStep(p) ==
    \/ \E id \in {0} \cup UserIDs : CreateUser(p, id)
    \/ \E id \in UserIDs : UpdateUser(p, id)
    \/ \E id \in UserIDs : DeleteUser(p, id)
    \/ \E id \in {0} \cup UserIDs :
          \E op \in {"create_user", "update_user", "delete_user"} :
             UserError(p, op, id)

NextAPI ==
    \E p \in Procs :
        \/ RegisterStep(p) \/ RegisterFailure(p) \/ CancelStep(p)
        \/ UpdateStep(p) \/ CreateStep(p) \/ DeleteStep(p) \/ UserStep(p)

SpecAPI == Init /\ [][NextAPI]_vars

\* Register and event-update calls in any interleaving, without cancellations.
NextUpdateRegister == \E p \in Procs : RegisterStep(p) \/ UpdateStep(p)

SpecUpdateRegister == Init /\ [][NextUpdateRegister]_vars

\* The concurrency test: one fresh event whose capacity is below the number of
\* goroutines, one test user per goroutine, every goroutine registering its
\* user for the event; the datastore returns no error.
InitTest ==
    /\ users = Handlers
    /\ events \in [1..1 -> {CreateEvent(c) : c \in 1..(MaxCalls - 1)}]
    /\ InitCalls

runRegistrationTest(p) ==
    \/ \E e \in DOMAIN events : RegisterForEvent(p, p, e)
    \/ RegFindExisting(p)
    \/ FindByIDForUpdate(p)
    \/ RegCreate(p)
    \/ RegDecrement(p)
    \/ RegCommit(p)
    \/ RegReload(p)

NextTest == \E p \in Procs : runRegistrationTest(p)

SpecTest == InitTest /\ [][NextTest]_vars

\* The concurrency test program itself: the data setupConcurrencyTestData
\* leaves, then runRegistrationTest.  Process p is the goroutine the loop
\* starts at i = p - 1.
InitConcurrencyTest ==
    /\ users = {TestUsersTable[k].ID : k \in DOMAIN TestUsersTable}
    /\ events = [e \in 1..1 |-> CreateEvent(testCapacity)]
    /\ registrations = {}
    /\ nextRegID = 1
    /\ rowLock = [e \in DOMAIN events |-> 0]
    /\ keys = [users |-> users, user_id_seq |-> Cardinality(users) + 1,
               events |-> DOMAIN events,
               event_id_seq |-> Cardinality(DOMAIN events) + 1]
    /\ seatsTaken = [u \in users |-> [e \in DOMAIN events |-> 0]]
    /\ refused = 0
    /\ pc = [p \in 1..numGoroutines |-> "new"]
    /\ call = [p \in Procs |-> NoCall]
    /\ tx = [p \in Procs |-> NoTx]
    /\ prior = [p \in Procs |-> FALSE]
    /\ last = NoReturn
    /\ result = [p \in Procs |-> NoResult]
    /\ cancelled = NoCancel
    /\ test = [NoTest EXCEPT !.at = "select", !.users = TestUsersTable]

\* The main goroutine of runRegistrationTest takes its next step: it collects
\* testUsers and calls wg.Add(numGoroutines); it starts the goroutine of
\* testUsers[i] while i < numGoroutines && i < len(testUsers); it returns from
\* wg.Wait() when the counter is 0 and reports the results.
ConcurrencyTestMain ==
    /\ test.at \in {"select", "launch", "wait"}
    /\ test.at = "wait" => test.wg = 0
    /\ test' =
         IF test.at = "select"
         THEN [test EXCEPT !.testUsers = SelectTestUsers(test.users),
                           !.wg = numGoroutines, !.i = 0, !.at = "launch"]
         ELSE IF test.at = "launch"
         THEN IF test.i < numGoroutines /\ test.i < Len(test.testUsers)
              THEN [test EXCEPT !.i = test.i + 1]
              ELSE [test EXCEPT !.at = "wait"]
         ELSE [test EXCEPT !.at = "report"]
    /\ UNCHANGED <<keys, users, events, registrations, nextRegID, rowLock, pc,
                   call, tx, seatsTaken, refused, prior, last, result, cancelled>>

\* Goroutine p has returned from RegisterForEvent: its first atomic.AddInt32,
\* on failCount when err != nil and on successCount otherwise.
ConcurrencyTestCount(p) ==
    /\ pc[p] = "done"
    /\ p \notin test.counted
    /\ LET err == result[p]
       IN test' = [test EXCEPT
              !.counted = @ \cup {p},
              !.successCount = IF err = Registered THEN @ + 1 ELSE @,
              !.failCount = IF err # Registered THEN @ + 1 ELSE @]
    /\ UNCHANGED <<keys, users, events, registrations, nextRegID, rowLock, pc,
                   call, tx, seatsTaken, refused, prior, last, result, cancelled>>

\* Goroutine p after failCount: the if / else if on err, with its
\* atomic.AddInt32 on eventFullCount or alreadyRegisteredCount.
ConcurrencyTestClassify(p) ==
    /\ p \in test.counted \ test.classified
    /\ result[p] # Registered
    /\ LET err == result[p]
       IN test' = [test EXCEPT
              !.classified = @ \cup {p},
              !.eventFullCount = IF err = ErrEventFull THEN @ + 1 ELSE @,
              !.alreadyRegisteredCount =
                  IF err = ErrAlreadyRegistered THEN @ + 1 ELSE @]
    /\ UNCHANGED <<keys, users, events, registrations, nextRegID, rowLock, pc,
                   call, tx, seatsTaken, refused, prior, last, result, cancelled>>

\* Goroutine p has logged its outcome and returns: the deferred wg.Done().
ConcurrencyTestDone(p) ==
    /\ p \in test.counted \ test.done
    /\ result[p] # Registered => p \in test.classified
    /\ test' = [test EXCEPT !.done = @ \cup {p}, !.wg = @ - 1]
    /\ UNCHANGED <<keys, users, events, registrations, nextRegID, rowLock, pc,
                   call, tx, seatsTaken, refused, prior, last, result, cancelled>>

\* The goroutine started for testUsers[p - 1] takes its next step:
\* RegisterForEvent(userID, testEvent.ID), statement by statement.
ConcurrencyTestGoroutine(p) ==
    \/ /\ p <= test.i
       /\ \E e \in DOMAIN events : RegisterForEvent(p, test.testUsers[p].ID, e)
    \/ RegFindExisting(p)
    \/ FindByIDForUpdate(p)
    \/ RegCreate(p)
    \/ RegDecrement(p)
    \/ RegCommit(p)
    \/ RegReload(p)
    \/ ConcurrencyTestCount(p)
    \/ ConcurrencyTestClassify(p)
    \/ ConcurrencyTestDone(p)

NextConcurrencyTest ==
    \/ ConcurrencyTestMain
    \/ \E p \in Procs : ConcurrencyTestGoroutine(p)

SpecConcurrencyTest == InitConcurrencyTest /\ [][NextConcurrencyTest]_vars

\* ---------------------------------------------------------------- properties
Live(e) == Cardinality(LiveOfEvent(registrations, e))

Pairs == users \X DOMAIN events

AllDone == \A p \in Procs : pc[p] = "done"

\* Handler p returns in this step.
Returns(p) == pc[p] # "done" /\ pc'[p] = "done"

\* The positions of a register, cancel or update call inside its transaction.
InTx == {"find_existing", "lock_event", "create", "decrement", "commit",
         "delete", "delete_wait", "increment", "update", "update_commit",
         "upsert_row", "upsert_commit"}

\* The transaction of handler p ends in this step.
TxEnds(p) == pc[p] \in InTx /\ pc'[p] \notin InTx

\* The transaction of handler p commits in this step: a register call goes on
\* to its reload, a cancel call returns.
Commits(p) ==
    /\ pc[p] = "commit"
    /\ pc'[p] = "reload" \/ (pc'[p] = "done" /\ last'.result = Cancelled)

\* C1: seat conservation.  In every committed state, for every event,
\* capacity - available_seats is the number of live registrations of the event.
C1_SeatConservation ==
    \A e \in DOMAIN events :
        events[e].capacity - events[e].available_seats = Live(e)

\* C2: no overbooking.  Under any interleaving of register calls the live
\* registrations of an event never exceed its capacity and available_seats
\* never goes below zero.
C2_NoOverbooking ==
    \A e \in DOMAIN events :
        /\ Live(e) <= events[e].capacity
        /\ events[e].available_seats >= 0

\* An event sold out by concurrent calls: one was just refused, another is
\* still running on the event.
C2_Witness ==
    \E e \in DOMAIN events :
        /\ Live(e) = events[e].capacity
        /\ events[e].available_seats = 0
        /\ last.result = ErrEventFull /\ last.event_id = e
        /\ \E p \in Procs : pc[p] = "lock_event" /\ call[p].event_id = e

\* The pairs for which exactly one register call committed.
Admitted == Cardinality({pair \in Pairs : seatsTaken[pair[1]][pair[2]] = 1})

\* C3: N concurrent register calls by N distinct users on a fresh event of
\* capacity C < N end with exactly C Registered (one per admitted user),
\* exactly N - C EventFull, so no other outcome, and available_seats = 0.
C3_ExactlyCapacityAdmitted ==
    AllDone =>
        \A e \in DOMAIN events :
            /\ \A u \in users : seatsTaken[u][e] <= 1
            /\ Admitted = events[e].capacity
            /\ refused = MaxCalls - events[e].capacity
            /\ events[e].available_seats = 0

C3_Witness ==
    /\ AllDone
    /\ Admitted >= 1
    /\ refused >= 1
    /\ Admitted + refused = MaxCalls

\* C4: upper bound.  After any register and cancel calls, cancellations of
\* pairs without a live registration included, available_seats of every event
\* is at most its capacity.
C4_SeatsAtMostCapacity ==
    \A e \in DOMAIN events : events[e].available_seats <= events[e].capacity

\* C5: a cancellation that finds no live registration of the pair succeeds as
\* a no-op: it leaves available_seats and the registrations as they were.
C5_CancelAbsentIsNoOp ==
    [][\A p \in Procs :
          (Returns(p) /\ call[p].op = "cancel" /\ tx[p].deleted = {}
             /\ last'.result = Cancelled)
          => (events' = events /\ registrations' = registrations)]_vars

\* C6: register calls racing on one (user, event) pair take at most one seat
\* for the pair.
C6_PairChargedAtMostOnce ==
    \A pair \in Pairs : seatsTaken[pair[1]][pair[2]] <= 1

\* C7: at most one live registration exists per (user_id, event_id) pair.
C7_OneLiveRegistrationPerPair ==
    \A pair \in Pairs :
        Cardinality(LiveRows(registrations, pair[1], pair[2])) <= 1

\* C8: with the register calls of a pair arriving one after another, the
\* pair's calls return Registered once and AlreadyRegistered every later time,
\* whatever other users' calls do meanwhile: a call returns AlreadyRegistered
\* exactly when an earlier call of the pair returned Registered (datastore
\* errors aside), it then leaves the seats alone, no pair is ever charged two
\* seats, and a call is refused with EventFull only on a sold-out event.
C8_RegisteredOnceThenAlready ==
    /\ [](\A pair \in Pairs : seatsTaken[pair[1]][pair[2]] <= 1)
    /\ [][\A p \in Procs :
            (Returns(p) /\ last'.result # ErrDB)
            => /\ prior[p] <=> last'.result = ErrAlreadyRegistered
               /\ prior[p] => events' = events
               /\ last'.result = ErrEventFull
                    => events[last'.event_id].available_seats = 0]_vars

\* The pair was registered, another user took a seat of the event, and the
\* pair's next call has just been refused.
C8_Witness ==
    /\ last.result = ErrAlreadyRegistered
    /\ last.event_id \in DOMAIN events
    /\ last.user_id \in users
    /\ seatsTaken[last.user_id][last.event_id] = 1
    /\ \E u \in users \ {last.user_id} : seatsTaken[u][last.event_id] = 1
    /\ events[last.event_id].available_seats = events[last.event_id].capacity - 2

\* The call that has just returned is register(u, e), and the call before it
\* was the cancellation of the live registration of (u, e).
RoundTrip ==
    /\ \A p \in Procs : ~Running(p)
    /\ last.op = "register"
    /\ last.undone
    /\ last.result # ErrDB

\* C9: round trip.  With one caller, cancel(u, e) of a live registration
\* followed by register(u, e) returns Registered (unless the datastore fails),
\* leaves exactly one live registration of the pair, and available_seats of e
\* as it was before the cancel.
C9_CancelThenRegister ==
    RoundTrip =>
        /\ last.result = Registered
        /\ Cardinality(LiveRows(registrations, last.user_id, last.event_id)) = 1
        /\ events[last.event_id].available_seats = last.seats

\* The round trip on a sold-out event.
C9_Witness ==
    /\ RoundTrip
    /\ last.result = Registered
    /\ events[last.event_id].available_seats = 0

\* C10: all-or-nothing.  A register call that returns anything but Registered
\* leaves the committed registrations and every event's available_seats as
\* they were: nothing its transaction wrote is committed.
C10_FailedRegisterChangesNothing ==
    [][\A p \in Procs :
          (Returns(p) /\ last'.op = "register" /\ last'.result # Registered)
          => (events' = events /\ registrations' = registrations)]_vars

\* A register call has just failed with a datastore error after it had inserted
\* its row: no call is running, and the row is in no table.
C10_Witness ==
    /\ \A p \in Procs : ~Running(p)
    /\ last.op = "register" /\ last.result = ErrDB
    /\ nextRegID = 2
    /\ registrations = {}
    /\ \A e \in DOMAIN events : events[e].available_seats = events[e].capacity

\* C11: a register call whose commit fails returns a transient failure and
\* leaves the tables as they were; only a call that returns Registered changes
\* them, in the step in which it commits, so no other transaction sees the
\* insert or the decrement of a call that fails; and the retry of the whole
\* call, unless it fails as well, returns Registered with exactly one live
\* registration of the pair, exactly one seat taken for it, and the event's
\* seats matching its live registrations.  Only when other users have sold
\* the event out meanwhile is the retry refused, and the pair then holds no
\* registration and no seat.
C11_CommitFailureThenRetry ==
    /\ [][\A p \in Procs :
            (Returns(p) /\ call[p].op = "register" /\ pc[p] = "commit"
               /\ last'.result # Registered)
            => /\ last'.result = ErrDB
               /\ events' = events /\ registrations' = registrations]_vars
    /\ [][(events' # events \/ registrations' # registrations)
            => \E p \in Procs : Commits(p) /\ call[p].op = "register"]_vars
    /\ [][\A p \in Procs :
            Returns(p) => (last'.result = Registered <=> pc[p] = "reload")]_vars
    /\ [][\A p \in Procs :
            (Returns(p) /\ last'.retried /\ last'.result # ErrDB)
            => \/ /\ last'.result = Registered
                  /\ Cardinality(LiveRows(registrations', last'.user_id,
                                          last'.event_id)) = 1
                  /\ seatsTaken'[last'.user_id][last'.event_id] = 1
                  /\ events'[last'.event_id].capacity
                         - events'[last'.event_id].available_seats
                       = Cardinality(LiveOfEvent(registrations',
                                                 last'.event_id))
               \/ /\ last'.result = ErrEventFull
                  /\ events'[last'.event_id].available_seats = 0
                  /\ LiveRows(registrations', last'.user_id,
                              last'.event_id) = {}
                  /\ seatsTaken'[last'.user_id][last'.event_id] = 0
                  /\ \E u \in users \ {last'.user_id} :
                        seatsTaken'[u][last'.event_id] > 0]_vars

\* The retry of a call whose commit failed has just returned Registered, while
\* another user's call was waiting for the event.
C11_Witness ==
    /\ last.retried /\ last.result = Registered
    /\ Cardinality(LiveRows(registrations, last.user_id, last.event_id)) = 1
    /\ \E q \in Procs : pc[q] = "lock_event" /\ call[q].event_id = last.event_id
                          /\ call[q].user_id # last.user_id

\* C12: after its creation an event's available_seats changes only by +1 or
\* -1, in the committing step of a register or cancel call.
C12_SeatsMoveByOne ==
    [][\A e \in DOMAIN events :
          events'[e].available_seats # events[e].available_seats
          => /\ events'[e].available_seats - events[e].available_seats \in {1, -1}
             /\ \E p \in Procs : Commits(p) /\ call[p].op \in {"register", "cancel"}]_vars

\* C13: from the moment a register transaction holds the event row lock until
\* it ends, no other transaction (register, cancel, update or delete) locks or
\* writes that row: the row keeps its value while locked, the transaction
\* keeps the lock, and the available_seats it checked is the committed value
\* when it decrements and when it commits.
C13_LockedCheckNeverStale ==
    /\ [](\A p \in Procs :
            (call[p].op = "register" /\ pc[p] \in {"create", "decrement", "commit"})
            => /\ rowLock[call[p].event_id] = p
               /\ tx[p].event = events[call[p].event_id].available_seats
               /\ pc[p] = "commit" => tx[p].seats = tx[p].event - 1)
    /\ [][\A e \in DOMAIN events :
            (rowLock[e] # 0 /\ ~TxEnds(rowLock[e]))
            => (events'[e] = events[e] /\ rowLock'[e] = rowLock[e])]_vars

\* A register call holds the lock on the last seat and is about to decrement,
\* while another register call and an update that would set the seats to 0
\* wait for the row.
C13_Witness ==
    \E p, q, r \in Procs :
        /\ call[p].op = "register" /\ pc[p] = "decrement" /\ tx[p].event = 1
        /\ pc[q] = "lock_event" /\ call[q].event_id = call[p].event_id
        /\ pc[r] = "update" /\ call[r].event_id = call[p].event_id /\ tx[r].seats = 0

\* C14: once the locked row passed the seat check, the conditional decrement
\* affects one row: the row is still there with a seat left, and no register
\* call returns EventFull from the RowsAffected check, whatever register,
\* cancel, update and delete calls run beside it.
C14_DecrementAlwaysHits ==
    /\ ~(last.op = "register" /\ last.at = "decrement" /\ last.result = ErrEventFull)
    /\ \A p \in Procs :
          (call[p].op = "register" /\ pc[p] = "decrement")
          => /\ call[p].event_id \in DOMAIN events
             /\ DecreaseAvailableSeats(
                    events[call[p].event_id].available_seats).rowsAffected = 1

\* A register call has decremented and is about to commit while a cancel and
\* an update wait for the same event row.
C14_Witness ==
    \E p, q, r \in Procs :
        /\ call[p].op = "register" /\ pc[p] = "commit"
        /\ call[q].op = "cancel" /\ pc[q] = "increment"
        /\ call[q].event_id = call[p].event_id
        /\ pc[r] = "update" /\ call[r].event_id = call[p].event_id

\* Handler p takes the event row lock in this step.
Locks(p) == pc[p] = "lock_event" /\ pc'[p] = "create"

\* C15: register calls on one event are admitted in the order in which they
\* take the row lock.  A call takes the lock only when no other call holds it,
\* what it then reads decides its outcome (Registered if a seat is left,
\* EventFull if none, datastore errors aside), the seats never come back
\* between lock holders, and a call that takes the lock after a refusal on the
\* same event finds no seat.
C15_AdmittedInLockOrder ==
    /\ [][\A p \in Procs :
            Locks(p)
            => /\ \A q \in Procs \ {p} :
                     (pc[q] \in {"create", "decrement", "commit"})
                     => call[q].event_id # call[p].event_id
               /\ tx'[p].event = events[call[p].event_id].available_seats]_vars
    /\ [][\A p \in Procs :
            (TxEnds(p) /\ pc[p] \in {"create", "decrement", "commit"}
               /\ ~(Returns(p) /\ last'.result = ErrDB))
            => /\ tx[p].event >= 1 <=> Commits(p)
               /\ tx[p].event <= 0 <=> (Returns(p) /\ last'.result = ErrEventFull)]_vars
    /\ [][\A p \in Procs :
            Returns(p) => (last'.result = Registered <=> pc[p] = "reload")]_vars
    /\ [][\A e \in DOMAIN events :
            events'[e].available_seats <= events[e].available_seats]_vars
    /\ [][\A p \in Procs :
            (Locks(p) /\ last.result = ErrEventFull
               /\ last.event_id = call[p].event_id)
            => tx'[p].event <= 0]_vars

\* One seat: the first lock holder has committed and not yet returned, the
\* next one has just been refused, and a third user waits for the lock.
C15_Witness ==
    \E e \in DOMAIN events :
        /\ events[e].capacity = 1 /\ events[e].available_seats = 0
        /\ last.result = ErrEventFull /\ last.at = "create" /\ last.event_id = e
        /\ \E u \in users \ {last.user_id} : seatsTaken[u][e] = 1
        /\ \E a \in Procs : pc[a] = "reload" /\ call[a].event_id = e
        /\ \E q \in Procs : pc[q] = "lock_event" /\ call[q].event_id = e
                              /\ rowLock[e] = 0

\* C16: under fair scheduling every register and cancel call that has started
\* eventually returns; no call waits forever for a row lock or for another
\* transaction, calls for one (user, event) pair included.  A handler serves
\* one call and never runs again once it returned, so this is: from some point
\* on no call is running.
C16_EveryCallReturns == <>[](\A p \in Procs : ~Running(p))

\* A cancel of a pair's live registration holds the registration row and the
\* event row, while a register call of the same pair waits for the event row.
C16_Witness ==
    \E p, r \in Procs :
        /\ call[p].op = "cancel" /\ pc[p] = "commit" /\ tx[p].deleted # {}
        /\ rowLock[call[p].event_id] = p
        /\ call[r].op = "register" /\ pc[r] = "lock_event"
        /\ call[r].user_id = call[p].user_id /\ call[r].event_id = call[p].event_id

\* C17: a cancellation is atomic.  The step that removes a live registration
\* is the step that releases a seat of its event, and it is the commit of a
\* cancel call; a cancel call that fails, at the delete, at the seat update or
\* at the commit, leaves the registrations and the seats as they were.
C17_CancelIsAtomic ==
    /\ [][\A r \in registrations :
            (~r.deleted /\ [r EXCEPT !.deleted = TRUE] \in registrations')
            => /\ events'[r.event_id].available_seats
                    = events[r.event_id].available_seats + 1
               /\ \E p \in Procs :
                     /\ Returns(p) /\ last'.result = Cancelled
                     /\ call[p].op = "cancel" /\ call[p].user_id = r.user_id
                     /\ call[p].event_id = r.event_id]_vars
    /\ [][\A p \in Procs :
            (Returns(p) /\ call[p].op = "cancel" /\ last'.result = Cancelled
               /\ tx[p].deleted # {})
            => /\ \A r \in registrations' : r.id \in tx[p].deleted => r.deleted
               /\ events'[call[p].event_id].available_seats
                    = events[call[p].event_id].available_seats + 1]_vars
    /\ [][\A p \in Procs :
            (Returns(p) /\ call[p].op = "cancel" /\ last'.result # Cancelled)
            => (events' = events /\ registrations' = registrations)]_vars

\* The cancellation of a live registration has just failed at its commit: the
\* registration is live and its seat is still taken.
C17_Witness ==
    /\ last.op = "cancel" /\ last.at = "commit" /\ last.result = ErrDB
    /\ last.event_id \in DOMAIN events
    /\ \A p \in Procs : ~Running(p)
    /\ Cardinality(LiveRows(registrations, last.user_id, last.event_id)) = 1
    /\ events[last.event_id].available_seats = events[last.event_id].capacity - 1

\* C18: a register call returns Registered only when it inserted a new live
\* row of its pair itself: it returns Registered only after its commit, and
\* its commit adds such a row.  ON CONFLICT DO NOTHING never swallows an
\* insert of a call that goes on to take a seat.
C18_RegisteredMeansInserted ==
    /\ [](\A p \in Procs :
            (call[p].op = "register" /\ pc[p] \in {"decrement", "commit"})
            => tx[p].created # {})
    /\ [][\A p \in Procs :
            (Returns(p) /\ last'.result = Registered) => pc[p] = "reload"]_vars
    /\ [][\A p \in Procs :
            (Commits(p) /\ call[p].op = "register")
            => \E r \in tx[p].created :
                  /\ r.user_id = call[p].user_id /\ r.event_id = call[p].event_id
                  /\ ~r.deleted
                  /\ r \in registrations' \ registrations
                  /\ \A old \in registrations : old.id # r.id]_vars

\* A pair registers again after its cancellation: the soft-deleted row of the
\* pair is still in the table and the call inserted a second, live one.
C18_Witness ==
    /\ last.op = "register" /\ last.result = Registered
    /\ \E r \in registrations :
          r.deleted /\ r.user_id = last.user_id /\ r.event_id = last.event_id
    /\ Cardinality(LiveRows(registrations, last.user_id, last.event_id)) = 1

\* C19: without the row lock the conditional decrement still keeps the seats
\* safe.  When the event row is read without FOR UPDATE, concurrent register
\* calls never take available_seats below 0, never commit more live
\* registrations than the capacity, and never commit a registration without
\* its seat.
C19_SafeWithoutRowLock ==
    \A e \in DOMAIN events :
        /\ events[e].available_seats >= 0
        /\ Cardinality(LiveOfEvent(registrations, e)) <= events[e].capacity
        /\ Cardinality(LiveOfEvent(registrations, e))
             = events[e].capacity - events[e].available_seats

\* Two calls read the last seat without a lock; one committed, and the other
\* has just been refused by the conditional decrement.
C19_Witness ==
    /\ last.op = "register" /\ last.at = "decrement" /\ last.result = ErrEventFull
    /\ events[last.event_id].available_seats = 0
    /\ Live(last.event_id) = events[last.event_id].capacity

\* C20: a register call returns UserNotFound exactly when the user does not
\* exist (datastore errors aside), and then from the user lookup, before any
\* transaction and without touching a table or a lock; it returns
\* EventNotFound exactly when the user exists and the event does not, the pair
\* then having no live registration; the four refusals are distinct outcomes.
C20_NotFoundOutcomes ==
    /\ [](Cardinality({ErrUserNotFound, ErrEventNotFound, ErrEventFull,
                       ErrAlreadyRegistered, Registered}) = 5)
    /\ [][\A p \in Procs :
            (Returns(p) /\ last'.op = "register" /\ last'.result # ErrDB)
            => /\ last'.result = ErrUserNotFound <=> last'.user_id \notin users
               /\ last'.result = ErrUserNotFound
                    => /\ pc[p] = "new" /\ tx[p] = NoTx
                       /\ UNCHANGED <<test, keys, users, events, registrations, nextRegID,
                                      rowLock, tx, seatsTaken>>
               /\ last'.result = ErrEventNotFound
                    <=> (last'.user_id \in users
                           /\ last'.event_id \notin DOMAIN events)
               /\ last'.result = ErrEventNotFound
                    => /\ pc[p] = "lock_event"
                       /\ LiveRows(registrations, last'.user_id,
                                   last'.event_id) = {}
                       /\ UNCHANGED <<events, registrations>>]_vars

\* A call of an existing user for a missing event has just returned
\* EventNotFound from the event lookup; no row was inserted before it.
C20_Witness ==
    /\ last.op = "register" /\ last.result = ErrEventNotFound
    /\ last.at = "lock_event"
    /\ last.user_id \in users /\ last.event_id \notin DOMAIN events
    /\ registrations = {} /\ nextRegID = 1

\* C21: the HTTP layer answers a register call with 201 exactly when it was
\* Registered, with 404 exactly for UserNotFound and EventNotFound, with 409
\* exactly for EventFull and AlreadyRegistered, and with 500 for any other
\* error; it answers a cancel call that succeeded with 200.
C21_OutcomeToStatus ==
    /\ last.op = "register" =>
          /\ ResponseStatus = 201 <=> last.result = Registered
          /\ ResponseStatus = 404
               <=> last.result \in {ErrUserNotFound, ErrEventNotFound}
          /\ ResponseStatus = 409
               <=> last.result \in {ErrEventFull, ErrAlreadyRegistered}
          /\ ResponseStatus = 500 <=> last.result = ErrDB
    /\ (last.op = "cancel" /\ last.result = Cancelled) => ResponseStatus = 200

\* A register call has just been refused on a sold-out event: 409.
C21_Witness ==
    /\ last.op = "register" /\ last.result = ErrEventFull
    /\ ResponseStatus = 409

\* C22: the reserve operation takes exactly one seat of the event if and only
\* if the event has a seat, changing nothing else; it reports ErrEventFull
\* exactly when the event has no seat; and for an id without an event it
\* changes nothing and does not report ErrEventFull.
C22_ReserveIsConditional ==
    \A id \in EventIDs :
        LET res == ReserveSeat(events, id)
        IN IF id \in DOMAIN events
           THEN IF events[id].available_seats > 0
                THEN /\ res.err = "ok"
                     /\ res.events = [events EXCEPT ![id].available_seats = @ - 1]
                ELSE /\ res.err = ErrEventFull
                     /\ res.events = events
           ELSE /\ res.events = events
                /\ res.err # ErrEventFull

\* C23: outcome precedence.  The duplicate lookup comes first: a call whose
\* pair has a live registration returns AlreadyRegistered there, whatever the
\* seats of the event, and only a call whose pair has none goes on to the
\* event; such a call returns EventFull exactly when the row it locked has
\* available_seats <= 0 (datastore errors aside).
C23_OutcomePrecedence ==
    /\ [][\A p \in Procs :
            (pc[p] = "find_existing" /\ pc'[p] # pc[p])
            => LET live == \E r \in registrations :
                              /\ r.user_id = call[p].user_id
                              /\ r.event_id = call[p].event_id
                              /\ ~r.deleted
               IN /\ live => last'.result \in {ErrAlreadyRegistered, ErrDB}
                  /\ live => pc'[p] = "done"
                  /\ ~live => (pc'[p] = "lock_event" \/ last'.result = ErrDB)]_vars
    /\ [][\A p \in Procs :
            (Returns(p) /\ last'.op = "register"
               /\ last'.result \in {ErrAlreadyRegistered, ErrEventFull})
            => /\ last'.result = ErrAlreadyRegistered <=> pc[p] = "find_existing"
               /\ last'.result = ErrEventFull
                    => /\ pc[p] = "create"
                       /\ rowLock[call[p].event_id] = p
                       /\ events[call[p].event_id].available_seats <= 0]_vars
    /\ [][\A p \in Procs :
            (TxEnds(p) /\ pc[p] \in {"create", "decrement", "commit"}
               /\ call[p].op = "register"
               /\ ~(Returns(p) /\ last'.result = ErrDB)
               /\ events[call[p].event_id].available_seats <= 0)
            => (Returns(p) /\ last'.result = ErrEventFull)]_vars

\* A registered user asks again for an event that is sold out:
\* AlreadyRegistered, not EventFull.
C23_Witness ==
    /\ last.op = "register" /\ last.result = ErrAlreadyRegistered
    /\ last.event_id \in DOMAIN events
    /\ events[last.event_id].available_seats = 0

\* C24: a create request is answered 400 and creates nothing when its capacity
\* is <= 0; otherwise, when the body binds and the datastore accepts the
\* insert, it creates one event whose available_seats equals its capacity,
\* whatever available_seats the body carried, and it creates nothing when it
\* is not answered 201: every created event starts with
\* 0 < capacity = available_seats.
C24_CreatedWithAllSeats ==
    /\ [](\A cap \in -1..MaxCap, seats \in -1..(MaxCap + 1) :
            LET res == HandleCreateEvent(TRUE, cap, seats, FALSE)
            IN /\ cap <= 0 => (res.status = 400 /\ res.rows = {})
               /\ cap > 0 => /\ res.status = 201
                             /\ res.rows = {[capacity |-> cap,
                                             available_seats |-> cap]})
    /\ [](\A bind, err \in BOOLEAN, cap \in -1..MaxCap,
             seats \in -1..(MaxCap + 1) :
            LET res == HandleCreateEvent(bind, cap, seats, err)
            IN /\ res.rows \subseteq {[capacity |-> cap, available_seats |-> cap]}
               /\ res.rows # {} <=> res.status = 201
               /\ res.rows # {} => (bind /\ cap > 0 /\ ~err))
    /\ [][\A e \in DOMAIN events' \ DOMAIN events :
            /\ events'[e].capacity > 0
            /\ events'[e].available_seats = events'[e].capacity
            /\ last'.result = Created]_vars
    /\ [][\A p \in Procs :
            (Returns(p) /\ last'.op = "create" /\ last'.result # Created)
            => /\ events' = events
               /\ registrations' = registrations]_vars
    /\ [][\A p \in Procs :
            (Returns(p) /\ last'.op = "create" /\ last'.result = Created)
            => /\ DOMAIN events' # DOMAIN events
               /\ events'[last'.event_id].capacity
                    = events'[last'.event_id].available_seats]_vars

\* An event has just been created from a body whose available_seats differed
\* from its capacity.
C24_Witness ==
    /\ last.op = "create" /\ last.result = Created
    /\ last.event_id \in DOMAIN events
    /\ last.seats # events[last.event_id].capacity
    /\ events[last.event_id].available_seats = events[last.event_id].capacity

\* C25: an update never leaves an event with a capacity below the number of
\* its live registrations, whatever register calls run beside it.
C25_CapacityCoversRegistrations ==
    \A e \in DOMAIN events : events[e].capacity >= Live(e)

\* C26: an accepted update keeps the event's registration count: the saved
\* capacity minus the saved available_seats equals the capacity minus the
\* available_seats of the row it replaces, whether the capacity is reduced,
\* kept or increased and whatever available_seats the request carries.
C26_UpdateKeepsRegistrationCount ==
    [][\A p \in Procs :
          (call[p].op = "update" /\ Returns(p) /\ last'.result = Updated)
          => LET e == call[p].event_id
             IN events'[e].capacity - events'[e].available_seats
                = events[e].capacity - events[e].available_seats]_vars

\* C27: of two concurrent cancellations of one live registration only one
\* releases a seat.  When the first has removed the registration and returned
\* with available_seats one higher than before, the return of the second,
\* which was running beside it, leaves available_seats at that value and the
\* pair without a live registration.
C27_ConcurrentCancelsReleaseOneSeat ==
    [][\A p \in Procs :
          LET u == call[p].user_id
              e == call[p].event_id
          IN (/\ Returns(p) /\ call[p].op = "cancel" /\ last'.result = Cancelled
              /\ cancelled # NoCancel
              /\ cancelled.user_id = u /\ cancelled.event_id = e
              /\ events[e].available_seats = cancelled.seats + 1)
             => /\ events'[e].available_seats = cancelled.seats + 1
                /\ LiveRows(registrations', u, e) = {}]_vars

\* C28: every register or cancel call that began a transaction ends it, by
\* one commit or one rollback, before it returns: the step that ends the
\* transaction either applies all its writes (the commit) or none of them
\* (the call then returns its error), and releases its locks, and a call
\* returns only from the end of its transaction or after it.  So a row lock is
\* only ever held by a call that is inside its transaction on that event, and
\* a call outside its transaction has none open.
C28_TransactionEndsWithCall ==
    /\ [](\A e \in DOMAIN rowLock :
            rowLock[e] # 0
            => (pc[rowLock[e]] \in InTx /\ call[rowLock[e]].event_id = e))
    /\ [](\A p \in Procs : pc[p] \notin InTx => tx[p] = NoTx)
    /\ [][\A p \in Procs :
            (Returns(p) /\ Running(p)) => (TxEnds(p) \/ pc[p] = "reload")]_vars
    /\ [][\A p \in Procs :
            TxEnds(p)
            => /\ rowLock' = Release(p)
               /\ \A e \in DOMAIN rowLock' : rowLock'[e] # p
               /\ tx'[p] = NoTx
               /\ \/ /\ Commits(p)
                     /\ registrations' = CommitRegistrations(p)
                     /\ events' = CommitEvents(p)
                  \/ /\ ~Commits(p)
                     /\ Returns(p)
                     /\ last'.result \notin {Registered, Cancelled}
                     /\ registrations' = registrations
                     /\ events' = events]_vars

\* A register call failed at its seat update while it held the event row lock
\* and has returned; the lock is free and another call on that event, which
\* was waiting for it, can go on.
C28_Witness ==
    /\ last.op = "register" /\ last.at = "decrement" /\ last.result = ErrDB
    /\ rowLock[last.event_id] = 0
    /\ \E q \in Procs : pc[q] = "lock_event" /\ call[q].event_id = last.event_id

\* C29: a register or cancel call on event e leaves every other event as it
\* is: no step of the call changes the row of another event or a registration
\* of another event.  And it never waits for a transaction on another event:
\* a running call can take its next step whenever no other running call is on
\* its event.
C29_OtherEventsUntouched ==
    /\ [][\A p \in Procs :
            pc'[p] # pc[p]
            => \A e \in DOMAIN events :
                  e # call[p].event_id
                  => /\ events'[e] = events[e]
                     /\ {r \in registrations' : r.event_id = e}
                          = {r \in registrations : r.event_id = e}
                     /\ rowLock'[e] = rowLock[e]]_vars
    /\ [](\A p \in Procs :
            (/\ Running(p)
             /\ \A q \in Procs \ {p} :
                   Running(q) => call[q].event_id # call[p].event_id)
            => ENABLED Continue(p))

\* A register call on one event has committed while transactions of two other
\* calls hold the row locks of two different events.
C29_Witness ==
    /\ last.op = "register" /\ last.result = Registered
    /\ \E p, q \in Procs :
          /\ Running(p) /\ Running(q)
          /\ call[p].event_id \in DOMAIN events /\ call[q].event_id \in DOMAIN events
          /\ call[p].event_id # call[q].event_id
          /\ rowLock[call[p].event_id] = p /\ rowLock[call[q].event_id] = q
          /\ last.event_id = call[p].event_id
          /\ events[call[q].event_id].available_seats
               = events[call[q].event_id].capacity

\* C30: the concurrency test starts numGoroutines registration attempts, one
\* for each of the test users it created, and ends: when it waits, the
\* goroutines started are as many as the WaitGroup counts, so the counter is 0
\* once they have all finished and wg.Wait() returns.
C30_TestStartsAllAndEnds ==
    test.at \in {"wait", "report"}
    => /\ test.i = numGoroutines
       /\ test.testUsers = SubSeq(TestUsersTable, 2, numTestUsers + 1)
       /\ test.done = 1..test.i => test.wg = 0

====
